---- MODULE Spec2Model ----
(***************************************************************************)
(* Model of the agent registry (services/agent_registry.py), of the        *)
(* /api/agents routes (routes/settings_routes.py), of the settings         *)
(* (services/settings_service.py) and of the text chunker                  *)
(* (utils/embeddings.py) of rag_agent.                                     *)
(*                                                                         *)
(* Python strings are sequences of one-character strings, so that lower(), *)
(* the substring test, slicing and split("\n") are computed, not assumed.  *)
(***************************************************************************)
EXTENDS Integers, Sequences, FiniteSets, TLC

VARIABLES
    agents,     \* rows of the agents table: [id, name, rules, temperature, max_tokens]
    last_op,    \* the registry operation that ran last
    op_ok,      \* whether that operation returned normally (FALSE: it raised)
    sel,        \* arguments and result of the last select_agent_for_request
    call,       \* the last request to /api/agents: [op, id, fields, status]
    reqs,       \* the POST /api/agents requests in flight, one per worker
    chat,       \* the last POST /api/chat request: [docs, message, status, agent_type]
    settings,   \* the rows "openai", "embedding", "pinecone" of the settings table
    ready,      \* the result of the last readiness() call
    s_ok,       \* the settings groups whose setter succeeded since the last clear
    m_in,       \* arguments of the _matches_rules call under test
    m_pc,       \* "call" before the call, "done" after it
    m_out,      \* result of that call
    c_in,       \* arguments of the chunk_text call under test
    c_pc,       \* "call" before the call, "done" after it
    c_out,      \* result of that call: [raised, chunks]
    c_first,    \* result of the same call made earlier, when there was one
    rag,        \* the persisted "rag" settings record
    rag_call    \* arguments and outcome of the last set_rag_settings call

vars == <<agents, last_op, op_ok, sel, call, reqs, chat, settings, ready, s_ok,
          m_in, m_pc, m_out, c_in, c_pc, c_out, c_first, rag, rag_call>>

regVars == <<agents, last_op, op_ok, sel, call, reqs, chat>>
settingsVars == <<settings, ready, s_ok>>
matchVars == <<m_in, m_pc, m_out>>
chunkVars == <<c_in, c_pc, c_out, c_first, rag, rag_call>>

----------------------------------------------------------------------------
(* Bounds *)

MaxId == 2          \* largest primary key handed out
MaxRuleLen == 2     \* longest list held by one rule key
MaxTextLen == 5     \* longest text given to chunk_text
MaxChunkSize == 3   \* largest chunk_size given to chunk_text
MaxOverlap == 3     \* largest chunk_overlap given to chunk_text
MaxDocs == 2        \* longest list of retrieved documents of every shape
MaxRagTextLen == 3  \* longest text chunked with the stored settings

----------------------------------------------------------------------------
(* Python strings *)

NL == "\n"

\* str.lower() on one character
LowerChar(c) ==
    CASE c = "A" -> "a"
      [] c = "B" -> "b"
      [] c = "C" -> "c"
      [] c = "D" -> "d"
      [] OTHER -> c

\* str.lower()
Lower(s) == [i \in 1..Len(s) |-> LowerChar(s[i])]

\* the Python test "sub in s"
Contains(sub, s) ==
    \E i \in 0..(Len(s) - Len(sub)) :
        \A j \in 1..Len(sub) : s[i + j] = sub[j]

\* s[k:] for 0 <= k
DropFirst(s, k) == IF k >= Len(s) THEN <<>> ELSE SubSeq(s, k + 1, Len(s))

\* the Python slice s[-k:] for an integer k.  -k is a negative index (count
\* from the end) only when k > 0; for k = 0 the slice is s[0:], the whole
\* string; for k < 0 it is s[|k|:].
SliceLast(s, k) ==
    IF k > 0 THEN DropFirst(s, IF Len(s) - k > 0 THEN Len(s) - k ELSE 0)
    ELSE DropFirst(s, 0 - k)

\* all sequences over S of length at most n
SeqsUpTo(S, n) == UNION {[1..k -> S] : k \in 0..n}

----------------------------------------------------------------------------
(* Python values held in JSON columns and request payloads.                *)
(* t = "str": the string s.  t = "none": None.  t = "other": a value that  *)
(* is neither a string nor a list, whose str() is s and whose truth value  *)
(* is tr.                                                                  *)

PyStr(s) == [t |-> "str", s |-> s, tr |-> s # <<>>]
PyNone == [t |-> "none", s |-> <<"N","o","n","e">>, tr |-> FALSE]
PyNum7 == [t |-> "other", s |-> <<"7">>, tr |-> TRUE]
PyZero == [t |-> "other", s |-> <<"0">>, tr |-> FALSE]

IsStr(v) == v.t = "str"
Truthy(v) == v.tr

\* One key of a selection_rules object: absent, a list of values, or a
\* value that is not a list.
KeyAbsent == [k |-> "absent", items |-> <<>>]
KeyList(items) == [k |-> "list", items |-> items]
KeyNotList == [k |-> "notlist", items |-> <<>>]

\* IsNonEmptyList without the test for emptiness
IsNonEmptyList_anylist(v) == v.k = "list"

\* rules.get(key) is a non-empty list
IsNonEmptyList(v) == v.k = "list" /\ v.items # <<>>

\* A selection_rules value: None, or a JSON object with the three
\* recognised keys and possibly other keys.
RulesNone == [obj |-> FALSE, dt |-> KeyAbsent, any |-> KeyAbsent, all |-> KeyAbsent, extra |-> FALSE]
RulesObj(dt, any, all, extra) == [obj |-> TRUE, dt |-> dt, any |-> any, all |-> all, extra |-> extra]
RulesEmpty == RulesObj(KeyAbsent, KeyAbsent, KeyAbsent, FALSE)

\* RulesTruthy taking every JSON object, {} included, as true
RulesTruthy_anyobj(r) == r.obj

\* Python truth value of a selection_rules value ("not rules" is its negation)
RulesTruthy(r) ==
    r.obj /\ (r.dt.k # "absent" \/ r.any.k # "absent" \/ r.all.k # "absent" \/ r.extra)

\* "agent.selection_rules or {}" and "selection_rules or {}"
OrEmpty(r) == IF RulesTruthy(r) THEN r ELSE RulesEmpty

----------------------------------------------------------------------------
(* Retrieved documents: d.get("metadata") is a dict (md = "dict"), None    *)
(* (md = "none") or the key is missing (md = "missing").                   *)

MdAbsent == [has |-> FALSE, v |-> PyNone]
MdVal(v) == [has |-> TRUE, v |-> v]
Doc(md, type, doc_type) == [md |-> md, type |-> type, doc_type |-> doc_type]

\* md.get(key)
MdGet(field) == IF field.has THEN field.v ELSE PyNone

\* DocTypeValue preferring 'doc_type' to 'type'
DocTypeValue_doctypefirst(d) ==
    IF d.md # "dict" THEN PyNone
    ELSE IF Truthy(MdGet(d.doc_type)) THEN MdGet(d.doc_type) ELSE MdGet(d.type)

\* the value t of line 71 for one document
DocTypeValue(d) ==
    IF d.md # "dict" THEN PyNone
    ELSE IF Truthy(MdGet(d.type)) THEN MdGet(d.type) ELSE MdGet(d.doc_type)

RECURSIVE _doc_types_from_results(_)
_doc_types_from_results(relevant_docs) ==
    IF relevant_docs = <<>> THEN <<>>
    ELSE LET t == DocTypeValue(Head(relevant_docs))
             rest == _doc_types_from_results(Tail(relevant_docs))
         IN IF IsStr(t) THEN <<Lower(t.s)>> \o rest ELSE rest

----------------------------------------------------------------------------
(* Rule evaluation *)

\* {str(t).lower() for t in allowed_types}
AllowedTypesNormalized(items) == {Lower(items[i].s) : i \in 1..Len(items)}

\* AnyDocTypeAllowed with all() in place of any(): true of no doc types
AnyDocTypeAllowed_all(items, doc_types) ==
    \A i \in 1..Len(doc_types) : doc_types[i] \in AllowedTypesNormalized(items)

\* any(dt in allowed_types_normalized for dt in doc_types)
AnyDocTypeAllowed(items, doc_types) ==
    \E i \in 1..Len(doc_types) : doc_types[i] \in AllowedTypesNormalized(items)

\* any(kw.lower() in q for kw in keywords if isinstance(kw, str))
AnyKeyword(items, q) ==
    \E i \in 1..Len(items) : IsStr(items[i]) /\ Contains(Lower(items[i].s), q)

\* AllKeywords with any() in place of all()
AllKeywords_any(items, q) ==
    \E i \in 1..Len(items) : IsStr(items[i]) /\ Contains(Lower(items[i].s), q)

\* all(kw.lower() in q for kw in kw_all if isinstance(kw, str))
AllKeywords(items, q) ==
    \A i \in 1..Len(items) : IsStr(items[i]) => Contains(Lower(items[i].s), q)

\* (user_query or "").lower()
QueryLower(user_query) == IF Truthy(user_query) THEN Lower(user_query.s) ELSE <<>>

_matches_rules(rules, doc_types, user_query) ==
    IF ~RulesTruthy(rules) THEN FALSE
    ELSE IF IsNonEmptyList(rules.dt) /\ ~AnyDocTypeAllowed(rules.dt.items, doc_types) THEN FALSE
    ELSE IF IsNonEmptyList(rules.any) /\ ~AnyKeyword(rules.any.items, QueryLower(user_query)) THEN FALSE
    ELSE IF IsNonEmptyList(rules.all) /\ ~AllKeywords(rules.all.items, QueryLower(user_query)) THEN FALSE
    ELSE TRUE

----------------------------------------------------------------------------
(* The agents table *)

NoAgent == [id |-> 0, name |-> "", rules |-> RulesNone, temperature |-> 0, max_tokens |-> 0]

Ids(as) == {a.id : a \in as}
Names(as) == {a.name : a \in as}
MaxIdOf(as) == IF as = {} THEN 0 ELSE CHOOSE i \in Ids(as) : \A j \in Ids(as) : j <= i

\* Agent.query.get(agent_id)
GetAgent(as, agent_id) ==
    IF agent_id \in Ids(as) THEN CHOOSE a \in as : a.id = agent_id ELSE NoAgent

\* list_agents ordering by Agent.id.desc()
RECURSIVE list_agents_desc(_)
list_agents_desc(as) ==
    IF as = {} THEN <<>>
    ELSE LET first == CHOOSE a \in as : \A b \in as : a.id >= b.id
         IN <<first>> \o list_agents_desc(as \ {first})

\* Agent.query.order_by(Agent.id.asc()).all()
RECURSIVE list_agents(_)
list_agents(as) ==
    IF as = {} THEN <<>>
    ELSE LET first == CHOOSE a \in as : \A b \in as : a.id <= b.id
         IN <<first>> \o list_agents(as \ {first})

\* the result (None, None)
NoMatch == [raised |-> FALSE, found |-> FALSE, agent |-> NoAgent, rules |-> RulesNone]

\* the for loop of select_agent_for_request, lines 119-126
RECURSIVE SelectLoop(_, _, _)
SelectLoop(lst, doc_types, user_query) ==
    IF lst = <<>> THEN NoMatch
    ELSE LET agent == Head(lst)
             rules == OrEmpty(agent.rules)
         IN IF _matches_rules(rules, doc_types, user_query)
            THEN [raised |-> FALSE, found |-> TRUE, agent |-> agent, rules |-> rules]
            ELSE SelectLoop(Tail(lst), doc_types, user_query)

\* select_agent_for_request without the "if not agents" return, falling back
\* to agents[0] when no rule matches: an IndexError on an empty table
select_agent_for_request_fallback(as, relevant_docs, user_query) ==
    LET lst == list_agents(as)
        r == SelectLoop(lst, _doc_types_from_results(relevant_docs), user_query)
    IN IF r.found THEN r
       ELSE IF lst = <<>>
       THEN [raised |-> TRUE, found |-> FALSE, agent |-> NoAgent, rules |-> RulesNone]
       ELSE [raised |-> FALSE, found |-> TRUE, agent |-> Head(lst), rules |-> OrEmpty(Head(lst).rules)]

\* select_agent_for_request over a list of agents that was read once, right
\* after the seeding, and still holds the seeded documentation agent after
\* that agent has left the table
select_agent_for_request_snapshot(as, relevant_docs, user_query) ==
    LET seeded == [id |-> 1, name |-> "documentation",
                   rules |-> RulesObj(KeyList(<<PyStr(<<"d","o","c","u","m","e","n","t",
                                                         "a","t","i","o","n">>)>>),
                                      KeyAbsent, KeyAbsent, FALSE),
                   temperature |-> 3, max_tokens |-> 1200]
        lst == list_agents(IF 1 \in Ids(as) THEN as ELSE as \cup {seeded})
    IN IF lst = <<>> THEN NoMatch
       ELSE SelectLoop(lst, _doc_types_from_results(relevant_docs), user_query)

select_agent_for_request(as, relevant_docs, user_query) ==
    LET lst == list_agents(as)
    IN IF lst = <<>> THEN NoMatch
       ELSE SelectLoop(lst, _doc_types_from_results(relevant_docs), user_query)

----------------------------------------------------------------------------
(* Inputs of the registry operations *)

DOCUMENTATION == <<"d","o","c","u","m","e","n","t","a","t","i","o","n">>
COURSE == <<"c","o","u","r","s","e">>

DocumentationRules == RulesObj(KeyList(<<PyStr(DOCUMENTATION)>>), KeyAbsent, KeyAbsent, FALSE)
CourseRules == RulesObj(KeyList(<<PyStr(COURSE)>>), KeyAbsent, KeyAbsent, FALSE)

\* selection_rules values a request may carry
RequestRules ==
    { RulesNone,
      RulesEmpty,
      DocumentationRules,
      \* keyword rules only
      RulesObj(KeyAbsent, KeyList(<<PyStr(<<"A">>)>>), KeyAbsent, FALSE),
      \* a more specific rule: doc type and two keywords
      RulesObj(KeyList(<<PyStr(<<"C","o","u","r","s","e">>)>>), KeyAbsent,
               KeyList(<<PyStr(<<"a">>), PyStr(<<"b">>)>>), FALSE),
      \* only keys that are not recognised
      RulesObj(KeyAbsent, KeyAbsent, KeyAbsent, TRUE) }

AgentNames == {"documentation", "helper"}

DocOfType(s) == Doc("dict", MdVal(PyStr(s)), MdAbsent)

\* lists of retrieved documents a request may carry
RequestDocs ==
    { <<>>,
      <<DocOfType(<<"D","o","c","u","m","e","n","t","a","t","i","o","n">>)>>,
      <<DocOfType(COURSE)>>,
      <<DocOfType(COURSE), DocOfType(DOCUMENTATION)>>,
      <<DocOfType(DOCUMENTATION), DocOfType(COURSE)>>,
      <<Doc("none", MdAbsent, MdAbsent), Doc("dict", MdAbsent, MdVal(PyStr(COURSE)))>> }

\* user queries a request may carry
RequestQueries ==
    { PyNone, PyStr(<<"x","A">>), PyStr(<<"B","a">>) }

NoSelect == [docs |-> <<>>, query |-> PyNone, result |-> NoMatch]

----------------------------------------------------------------------------
(* Registry operations *)

\* the primary key the database gives a new row (Agent.id, an integer
\* primary key of SQLite): one past the largest id in the table
NewId(as) == MaxIdOf(as) + 1

\* A temperature or max_tokens argument: a number, or a value float() and
\* int() reject.  Temperatures are counted in tenths: 3 is 0.3.
Num(n) == [num |-> TRUE, n |-> n]
NotNum == [num |-> FALSE, n |-> 0]

\* payload.get("temperature", 0.3) and payload.get("max_tokens", 1200)
DefaultTemperature == 3
DefaultMaxTokens == 1200

\* the unique constraint on agents.name with no effect
UniqueViolation_off(as, name) == FALSE

\* the unique constraint on agents.name: a commit that would leave two rows
\* with this name raises IntegrityError
UniqueViolation(as, name) == name \in Names(as)

\* create_agent: float(temperature) and int(max_tokens) raise on a value
\* that is not a number, the commit raises on a name that is taken;
\* otherwise the row is stored as given.  Result: [raised, agents, id].
create_agent(as, name, temperature, max_tokens, selection_rules) ==
    IF ~temperature.num \/ ~max_tokens.num
    THEN [raised |-> TRUE, agents |-> as, id |-> 0]
    ELSE IF UniqueViolation(as, name)
    THEN [raised |-> TRUE, agents |-> as, id |-> 0]
    ELSE [raised |-> FALSE,
          agents |-> as \cup {[id |-> NewId(as), name |-> name,
                               rules |-> OrEmpty(selection_rules),
                               temperature |-> temperature.n,
                               max_tokens |-> max_tokens.n]},
          id |-> NewId(as)]

\* one keyword argument of update_agent: passed with a value, or not passed
Passed(v) == [set |-> TRUE, v |-> v]
NotPassed(v) == [set |-> FALSE, v |-> v]

\* the keyword arguments that were passed
Named(fields) == {k \in DOMAIN fields : fields[k].set}

\* the row after the setattr loop of update_agent; a field that is not
\* passed keeps its value, "bogus", a key the Agent object has no attribute
\* for, is skipped by the hasattr test, and "id", the primary key, is an
\* attribute like the others
Updated(agent, fields) ==
    [id |-> IF fields.id.set THEN fields.id.v ELSE agent.id,
     name |-> IF fields.name.set THEN fields.name.v ELSE agent.name,
     rules |-> IF fields.rules.set THEN fields.rules.v ELSE agent.rules,
     temperature |-> IF fields.temperature.set THEN fields.temperature.v
                     ELSE agent.temperature,
     max_tokens |-> IF fields.max_tokens.set THEN fields.max_tokens.v
                    ELSE agent.max_tokens]

\* the primary key of the row is held by another row: the commit raises
PrimaryKeyViolation(as, id) == id \in Ids(as)

\* update_agent(agent_id, **fields).  A keyword called agent_id collides
\* with the positional parameter and the call raises TypeError before the
\* body runs.  Result: [raised, found, agents]; found = FALSE is the return
\* value None.
update_agent(as, agent_id, fields) ==
    LET agent == GetAgent(as, agent_id)
        row == Updated(agent, fields)
    IN IF fields.agent_id.set
       THEN [raised |-> TRUE, found |-> FALSE, agents |-> as]
       ELSE IF agent_id \notin Ids(as)
       THEN [raised |-> FALSE, found |-> FALSE, agents |-> as]
       ELSE IF UniqueViolation(as \ {agent}, row.name)
       THEN [raised |-> TRUE, found |-> TRUE, agents |-> as]
       ELSE IF PrimaryKeyViolation(as \ {agent}, row.id)
       THEN [raised |-> TRUE, found |-> TRUE, agents |-> as]
       ELSE [raised |-> FALSE, found |-> TRUE, agents |-> (as \ {agent}) \cup {row}]

\* delete_agent that answers True for every id
delete_agent_always(as, agent_id) ==
    [found |-> TRUE, agents |-> as \ {GetAgent(as, agent_id)}]

\* delete_agent.  Result: [found, agents]; found is the return value.
delete_agent(as, agent_id) ==
    IF agent_id \notin Ids(as)
    THEN [found |-> FALSE, agents |-> as]
    ELSE [found |-> TRUE, agents |-> as \ {GetAgent(as, agent_id)}]

\* ensure_default_agents creating each default agent whose name is missing
ensure_default_agents_byname(as) ==
    LET first == IF "documentation" \in Names(as) THEN as
                 ELSE create_agent(as, "documentation", Num(3), Num(1200),
                                   DocumentationRules).agents
    IN IF "course" \in Names(first) THEN first
       ELSE create_agent(first, "course", Num(4), Num(1200), CourseRules).agents

\* ensure_default_agents: two create_agent calls when the table is empty.
\* Result: the table afterwards.
ensure_default_agents(as) ==
    IF Cardinality(as) > 0 THEN as
    ELSE LET first == create_agent(as, "documentation", Num(3), Num(1200),
                                   DocumentationRules)
         IN create_agent(first.agents, "course", Num(4), Num(1200), CourseRules).agents

\* the **fields of an update in the registry specification: each of name and
\* selection_rules is passed or not
UpdateFields ==
    [name : {NotPassed("")} \cup {Passed(n) : n \in AgentNames},
     rules : {NotPassed(RulesNone)} \cup {Passed(r) : r \in RequestRules},
     temperature : {NotPassed(0)},
     max_tokens : {NotPassed(0)},
     bogus : {NotPassed(0)},
     agent_id : {NotPassed(0)},
     id : {NotPassed(0)}]

\* no keyword argument passed
NoFields ==
    [name |-> NotPassed(""), rules |-> NotPassed(RulesNone),
     temperature |-> NotPassed(0), max_tokens |-> NotPassed(0), bogus |-> NotPassed(0),
     agent_id |-> NotPassed(0), id |-> NotPassed(0)]

NoCall == [op |-> "none", id |-> 0, fields |-> NoFields, status |-> 0]
NoReqs == <<>>

\* what the registry functions leave alone
RegFrame == UNCHANGED <<call, reqs, chat, settingsVars, matchVars, chunkVars>>

\* one call of create_agent with the defaults of the POST route
CreateAgent ==
    \E name \in AgentNames, rules \in RequestRules :
        \E r \in {create_agent(agents, name, Num(DefaultTemperature),
                                Num(DefaultMaxTokens), rules)} :
           /\ NewId(agents) <= MaxId
           /\ agents' = r.agents
           /\ op_ok' = ~r.raised
           /\ last_op' = "create"
           /\ sel' = NoSelect
           /\ RegFrame

\* one call of update_agent
UpdateAgent ==
    \E agent_id \in 1..MaxId, fields \in UpdateFields :
        \E r \in {update_agent(agents, agent_id, fields)} :
           /\ agents' = r.agents
           /\ op_ok' = ~r.raised
           /\ last_op' = "update"
           /\ sel' = NoSelect
           /\ RegFrame

\* one call of delete_agent
DeleteAgent ==
    \E agent_id \in 1..MaxId :
        /\ agents' = delete_agent(agents, agent_id).agents
        /\ op_ok' = TRUE
        /\ last_op' = "delete"
        /\ sel' = NoSelect
        /\ RegFrame

\* one call of ensure_default_agents
EnsureDefaultAgents ==
    \E as \in {ensure_default_agents(agents)} :
        /\ MaxIdOf(as) <= MaxId
        /\ agents' = as
        /\ op_ok' = TRUE
        /\ last_op' = "seed"
        /\ sel' = NoSelect
        /\ RegFrame

\* Select storing "agent.selection_rules or {}" back into every row
Select_writeback ==
    \E docs \in RequestDocs, query \in RequestQueries :
        /\ sel' = [docs |-> docs, query |-> query,
                   result |-> select_agent_for_request(agents, docs, query)]
        /\ op_ok' = ~sel'.result.raised
        /\ last_op' = "select"
        /\ agents' = {[a EXCEPT !.rules = OrEmpty(a.rules)] : a \in agents}
        /\ RegFrame

\* one call of select_agent_for_request
Select ==
    \E docs \in RequestDocs, query \in RequestQueries :
        /\ sel' = [docs |-> docs, query |-> query,
                   result |-> select_agent_for_request(agents, docs, query)]
        /\ op_ok' = ~sel'.result.raised
        /\ last_op' = "select"
        /\ UNCHANGED agents
        /\ RegFrame

----------------------------------------------------------------------------
(* The /api/agents routes: routes/settings_routes.py.  Each request runs   *)
(* the registry function, rolls the session back on an exception and       *)
(* answers with a status code; call records the request and its answer.    *)

\* what the routes leave alone
RouteFrame == UNCHANGED <<sel, reqs, chat, settingsVars, matchVars, chunkVars>>

\* POST /api/agents: 201 with the new id, 400 on any exception
RouteCreateAgent(NamesIn, TemperaturesIn, MaxTokensIn, RulesIn) ==
    \E name \in NamesIn, temperature \in TemperaturesIn,
       max_tokens \in MaxTokensIn, rules \in RulesIn :
        \E r \in {create_agent(agents, name, temperature, max_tokens, OrEmpty(rules))} :
           /\ NewId(agents) <= MaxId
           /\ agents' = r.agents
           /\ op_ok' = ~r.raised
           /\ last_op' = "create"
           /\ call' = [op |-> "create", id |-> r.id, fields |-> NoFields,
                       status |-> IF r.raised THEN 400 ELSE 201]
           /\ RouteFrame

\* PUT /api/agents/<id>: 404 when update_agent returns None, 200 when it
\* returns the agent, 400 on any exception
RouteUpdateAgent(FieldsIn) ==
    \E agent_id \in 1..MaxId, fields \in FieldsIn :
        \E r \in {update_agent(agents, agent_id, fields)} :
           /\ agents' = r.agents
           /\ op_ok' = ~r.raised
           /\ last_op' = "update"
           /\ call' = [op |-> "update", id |-> agent_id, fields |-> fields,
                       status |-> IF r.raised THEN 400
                                  ELSE IF r.found THEN 200 ELSE 404]
           /\ RouteFrame

\* DELETE /api/agents/<id>: 200 when delete_agent returns True, else 404
RouteDeleteAgent ==
    \E agent_id \in 1..MaxId :
        \E r \in {delete_agent(agents, agent_id)} :
           /\ agents' = r.agents
           /\ op_ok' = TRUE
           /\ last_op' = "delete"
           /\ call' = [op |-> "delete", id |-> agent_id, fields |-> NoFields,
                       status |-> IF r.found THEN 200 ELSE 404]
           /\ RouteFrame

\* ensure_default_agents as run at application start and by the seed service
SeedDefaults ==
    \E as \in {ensure_default_agents(agents)} :
        /\ MaxIdOf(as) <= MaxId
        /\ agents' = as
        /\ op_ok' = TRUE
        /\ last_op' = "seed"
        /\ call' = [op |-> "seed", id |-> 0, fields |-> NoFields, status |-> 0]
        /\ RouteFrame

\* requests of the route specification: every name, one rule object, and
\* updates that pass any of name, selection_rules and two keys that are not
\* agent fields, "bogus" and "agent_id"
CrudNames == {"documentation", "course", "helper"}
CrudRules == {DocumentationRules}
CrudFields ==
    [name : {NotPassed(""), Passed("documentation"), Passed("helper")},
     rules : {NotPassed(RulesNone), Passed(RulesNone)},
     temperature : {NotPassed(0)},
     max_tokens : {NotPassed(0)},
     bogus : {NotPassed(0), Passed(0)},
     agent_id : {NotPassed(0), Passed(1)},
     id : {NotPassed(0)}]

\* requests of the parameter specification: temperatures and max_tokens
\* inside and outside their documented ranges
ParamNames == {"documentation", "helper"}
ParamTemperatures == {Num(3), Num(25), NotNum}
ParamMaxTokens == {Num(1200), Num(0), NotNum}
ParamFields ==
    [name : {NotPassed("")},
     rules : {NotPassed(RulesNone)},
     temperature : {NotPassed(0), Passed(3), Passed(25)},
     max_tokens : {NotPassed(0), Passed(1200), Passed(-1)},
     bogus : {NotPassed(0)},
     agent_id : {NotPassed(0)},
     id : {NotPassed(0)}]

\* requests of the ordering specification: a PUT payload may carry "id"
OrderFields ==
    [name : {NotPassed("")},
     rules : {NotPassed(RulesNone), Passed(RulesNone)},
     temperature : {NotPassed(0)},
     max_tokens : {NotPassed(0)},
     bogus : {NotPassed(0)},
     agent_id : {NotPassed(0)},
     id : {NotPassed(0)} \cup {Passed(i) : i \in 1..(MaxId + 1)}]

\* requests of the catch-all specification: rules in which no recognised
\* key holds a non-empty list, and the rules of the documentation agent
CatchAllRules ==
    { RulesObj(KeyList(<<>>), KeyAbsent, KeyAbsent, FALSE),
      RulesObj(KeyNotList, KeyList(<<>>), KeyAbsent, FALSE),
      RulesObj(KeyAbsent, KeyAbsent, KeyNotList, TRUE),
      RulesObj(KeyAbsent, KeyAbsent, KeyAbsent, TRUE),
      DocumentationRules }

CatchAllFields ==
    [name : {NotPassed("")},
     rules : {Passed(r) : r \in CatchAllRules},
     temperature : {NotPassed(0)},
     max_tokens : {NotPassed(0)},
     bogus : {NotPassed(0)},
     agent_id : {NotPassed(0)},
     id : {NotPassed(0)}]

----------------------------------------------------------------------------
(* POST /api/chat: routes/chat_routes.py and services/agno_service.py.     *)
(* The conversation and its messages, which the handler also stores, are   *)
(* not part of the state.                                                  *)

\* select_agent_by_doc_type: doc_agent when a document's metadata 'type' is
\* a string whose lower case is 'documentation', course_agent otherwise
select_agent_by_doc_type(relevant_docs) ==
    IF \E i \in 1..Len(relevant_docs) :
          /\ relevant_docs[i].md = "dict"
          /\ relevant_docs[i].type.has
          /\ IsStr(relevant_docs[i].type.v)
          /\ Lower(relevant_docs[i].type.v.s) = DOCUMENTATION
    THEN "doc_agent"
    ELSE "course_agent"

\* the agent_type string of lines 74-79
AgentType(selected_agent) ==
    IF selected_agent = "doc_agent" THEN "documentation" ELSE "course"

\* messages a chat request may carry
ChatMessages == { PyStr(<<>>), PyStr(<<"x","A">>) }

NoChat == [docs |-> <<>>, message |-> PyNone, status |-> 0, agent_type |-> ""]

\* POST /api/chat: 400 for an empty message; otherwise the documents that
\* semantic_search retrieved choose the agent that answers
Chat ==
    \E docs \in RequestDocs, message \in ChatMessages :
        /\ chat' = IF ~Truthy(message)
                   THEN [docs |-> <<>>, message |-> message, status |-> 400,
                         agent_type |-> ""]
                   ELSE [docs |-> docs, message |-> message, status |-> 200,
                         agent_type |-> AgentType(select_agent_by_doc_type(docs))]
        /\ last_op' = "chat"
        /\ op_ok' = TRUE
        /\ UNCHANGED <<agents, sel, call, reqs, settingsVars, matchVars, chunkVars>>

----------------------------------------------------------------------------
(* POST /api/agents requests that overlap.  Each worker serves one request *)
(* at a time with its own session: create_agent adds the Agent to the      *)
(* session, db.session.commit() sends INSERT and COMMIT, which the         *)
(* database runs as one step that checks the unique constraint, and the    *)
(* route answers 201, or rolls back and answers 400.                       *)

NumWorkers == 2
Workers == 1..NumWorkers

IdleRequest == [pc |-> "idle", name |-> "", status |-> 0, sess |-> "clean"]

\* names the overlapping requests ask for
OverlapNames == {"documentation", "helper"}

\* an except clause that does not roll the session back
SessionRollback_none(sess) == sess

\* db.session.rollback() in the except clause of the route
SessionRollback(sess) == "clean"

\* what the steps of a request leave alone
RequestFrame ==
    UNCHANGED <<last_op, op_ok, sel, call, chat, settingsVars, matchVars, chunkVars>>

\* the request arrives and create_agent adds the new Agent to the session
ReceiveCreate(w) ==
    \E name \in OverlapNames :
        /\ reqs[w].pc = "idle"
        /\ reqs' = [reqs EXCEPT ![w] = [pc |-> "added", name |-> name, status |-> 0,
                                        sess |-> reqs[w].sess]]
        /\ UNCHANGED agents
        /\ RequestFrame

\* db.session.commit(): a session left in a failed transaction raises, a
\* name that is taken by now raises and leaves the session failed,
\* otherwise the row is inserted
CommitCreate(w) ==
    /\ reqs[w].pc = "added"
    /\ \E r \in {create_agent(agents, reqs[w].name, Num(DefaultTemperature),
                              Num(DefaultMaxTokens), DocumentationRules)} :
          IF reqs[w].sess = "failed" \/ r.raised
          THEN /\ agents' = agents
               /\ reqs' = [reqs EXCEPT ![w].pc = "raised", ![w].sess = "failed"]
          ELSE /\ NewId(agents) <= MaxId
               /\ agents' = r.agents
               /\ reqs' = [reqs EXCEPT ![w].pc = "committed"]
    /\ RequestFrame

\* the answer: 201 after the commit, 400 after the rollback
RespondCreate(w) ==
    /\ \/ /\ reqs[w].pc = "committed"
          /\ reqs' = [reqs EXCEPT ![w].pc = "idle", ![w].status = 201]
       \/ /\ reqs[w].pc = "raised"
          /\ reqs' = [reqs EXCEPT ![w].pc = "idle", ![w].status = 400,
                                  ![w].sess = SessionRollback(reqs[w].sess)]
    /\ UNCHANGED agents
    /\ RequestFrame

\* delete_agent called while requests are in flight
DeleteDuringRequests ==
    \E agent_id \in 1..MaxId :
        /\ agents' = delete_agent(agents, agent_id).agents
        /\ UNCHANGED reqs
        /\ RequestFrame

----------------------------------------------------------------------------
(* ensure_default_agents invocations that overlap.  Each invocation runs   *)
(* in its own session, from the application start (app.py) or from the     *)
(* seed service: it reads Agent.query.count(), and when that is 0 it calls *)
(* create_agent twice, each call ending in its own commit.                 *)

IdleSeeding == [pc |-> "idle", caller |-> "", sess |-> "clean"]

SeedCallers == {"app", "seed_service"}

\* a caller enters its try block and calls ensure_default_agents
SeedCall(w) ==
    \E caller \in SeedCallers :
        /\ reqs[w].pc = "idle"
        /\ reqs' = [reqs EXCEPT ![w].pc = "called", ![w].caller = caller]
        /\ UNCHANGED agents
        /\ RequestFrame

\* line 135 reads the count; ensure_default_agents returns when there is a
\* row
SeedCount(w) ==
    /\ reqs[w].pc = "called"
    /\ reqs' = [reqs EXCEPT ![w].pc = IF Cardinality(agents) > 0 THEN "returned"
                                      ELSE "first"]
    /\ UNCHANGED agents
    /\ RequestFrame

\* the create_agent call of line 145: the commit raises when the name is
\* taken by now and leaves the session in a failed transaction
SeedCreateDocumentation(w) ==
    /\ reqs[w].pc = "first"
    /\ \E r \in {create_agent(agents, "documentation", Num(3), Num(1200),
                              DocumentationRules)} :
          IF r.raised
          THEN /\ agents' = agents
               /\ reqs' = [reqs EXCEPT ![w].pc = "raised", ![w].sess = "failed"]
          ELSE /\ agents' = r.agents
               /\ reqs' = [reqs EXCEPT ![w].pc = "second"]
    /\ RequestFrame

\* the create_agent call of line 159
SeedCreateCourse(w) ==
    /\ reqs[w].pc = "second"
    /\ \E r \in {create_agent(agents, "course", Num(4), Num(1200), CourseRules)} :
          IF r.raised
          THEN /\ agents' = agents
               /\ reqs' = [reqs EXCEPT ![w].pc = "raised", ![w].sess = "failed"]
          ELSE /\ agents' = r.agents
               /\ reqs' = [reqs EXCEPT ![w].pc = "returned"]
    /\ RequestFrame

\* the except clause of the caller: app.py logs a warning, the seed
\* service rolls the session back and logs a warning
SeedExcept(w) ==
    /\ reqs[w].pc = "raised"
    /\ reqs' = [reqs EXCEPT ![w].pc = "failed",
                            ![w].sess = IF reqs[w].caller = "seed_service"
                                        THEN SessionRollback(reqs[w].sess)
                                        ELSE reqs[w].sess]
    /\ UNCHANGED agents
    /\ RequestFrame

\* the process of an invocation that is over ends; the application is
\* started again later, with a new session
SeedRestart(w) ==
    /\ reqs[w].pc \in {"returned", "failed"}
    /\ reqs' = [reqs EXCEPT ![w] = IdleSeeding]
    /\ UNCHANGED agents
    /\ RequestFrame

----------------------------------------------------------------------------
(* The chunker: utils/embeddings.py *)

DefaultChunkSize == 500
DefaultChunkOverlap == 30

\* A chunk_size / chunk_overlap argument: an integer, None (not passed), or
\* a value that cannot be compared with an integer (t = "bad").
ParamInt(n) == [t |-> "int", n |-> n]
ParamNone == [t |-> "none", n |-> 0]
ParamBad == [t |-> "bad", n |-> 0]

\* The "rag" settings record: absent, or the two integers set_rag_settings stored.
RagAbsent == [present |-> FALSE, chunk_size |-> 0, chunk_overlap |-> 0]
RagStored(size, overlap) == [present |-> TRUE, chunk_size |-> size, chunk_overlap |-> overlap]

\* int(rag_cfg.get("chunk_size", 500)) and int(rag_cfg.get("chunk_overlap", 30))
\* over get_rag_settings() = _get_setting("rag") or {}
CfgChunkSize(cfg) == IF cfg.present THEN cfg.chunk_size ELSE DefaultChunkSize
CfgChunkOverlap(cfg) == IF cfg.present THEN cfg.chunk_overlap ELSE DefaultChunkOverlap

\* text.split("\n"): the paragraphs, in order; a text with n newlines has
\* n + 1 paragraphs, empty ones included
RECURSIVE SplitFrom(_, _)
SplitFrom(text, cur) ==
    IF text = <<>> THEN <<cur>>
    ELSE IF Head(text) = NL THEN <<cur>> \o SplitFrom(Tail(text), <<>>)
    ELSE SplitFrom(Tail(text), Append(cur, Head(text)))

Split(text) == SplitFrom(text, <<>>)

\* OverlapText taking the whole previous chunk
OverlapText_whole(prev, chunk_overlap) == prev

\* lines 61-65: the overlap taken from the previous chunk
OverlapText(prev, chunk_overlap) ==
    IF Len(prev) > chunk_overlap THEN SliceLast(prev, chunk_overlap) ELSE prev

\* Exceeds without the 1 counted for the joining newline
Exceeds_nojoin(current_chunk, paragraph, chunk_size) ==
    Len(current_chunk) + Len(paragraph) > chunk_size

\* line 53: adding this paragraph would exceed the chunk size
Exceeds(current_chunk, paragraph, chunk_size) ==
    Len(current_chunk) + Len(paragraph) + 1 > chunk_size

\* FitsOneChunk with < in place of <=
FitsOneChunk_strict(text, chunk_size) == Len(text) < chunk_size

\* line 44: a short text needs no chunking
FitsOneChunk(text, chunk_size) == Len(text) <= chunk_size

\* LoopStep without the test of line 55: the buffer is added to the chunks
\* even when it is empty
LoopStep_alwaysappend(st, paragraph, chunk_size, chunk_overlap) ==
    IF st.err THEN st
    ELSE IF Exceeds(st.current_chunk, paragraph, chunk_size)
    THEN LET chunks == Append(st.chunks, st.current_chunk)
         IN IF chunk_overlap.t # "int"
            THEN [chunks |-> chunks, current_chunk |-> st.current_chunk, err |-> TRUE]
            ELSE [chunks |-> chunks,
                  current_chunk |-> OverlapText(chunks[Len(chunks)], chunk_overlap.n)
                                    \o <<NL>> \o paragraph,
                  err |-> FALSE]
    ELSE [chunks |-> st.chunks,
          current_chunk |-> IF st.current_chunk # <<>>
                            THEN st.current_chunk \o <<NL>> \o paragraph
                            ELSE paragraph,
          err |-> FALSE]

\* one iteration of the for loop, lines 51-74, on the loop state
\* st = [chunks, current_chunk, err]; err: an exception left the loop
LoopStep(st, paragraph, chunk_size, chunk_overlap) ==
    IF st.err THEN st
    ELSE IF Exceeds(st.current_chunk, paragraph, chunk_size)
    THEN LET chunks == IF st.current_chunk # <<>>
                       THEN Append(st.chunks, st.current_chunk)
                       ELSE st.chunks
         IN IF chunks # <<>>
            THEN IF chunk_overlap.t # "int"
                 THEN [chunks |-> chunks, current_chunk |-> st.current_chunk, err |-> TRUE]
                 ELSE [chunks |-> chunks,
                       current_chunk |-> OverlapText(chunks[Len(chunks)], chunk_overlap.n)
                                         \o <<NL>> \o paragraph,
                       err |-> FALSE]
            ELSE [chunks |-> chunks, current_chunk |-> paragraph, err |-> FALSE]
    ELSE [chunks |-> st.chunks,
          current_chunk |-> IF st.current_chunk # <<>>
                            THEN st.current_chunk \o <<NL>> \o paragraph
                            ELSE paragraph,
          err |-> FALSE]

RECURSIVE Loop(_, _, _, _)
Loop(st, paragraphs, chunk_size, chunk_overlap) ==
    IF paragraphs = <<>> THEN st
    ELSE Loop(LoopStep(st, Head(paragraphs), chunk_size, chunk_overlap),
              Tail(paragraphs), chunk_size, chunk_overlap)

\* Finish without lines 77-78: the last buffer is never added
Finish_nolast(st) ==
    IF st.err THEN [err |-> TRUE, chunks |-> <<>>]
    ELSE [err |-> FALSE, chunks |-> st.chunks]

\* lines 76-81: the last chunk is added if not empty
Finish(st) ==
    IF st.err THEN [err |-> TRUE, chunks |-> <<>>]
    ELSE [err |-> FALSE,
          chunks |-> IF st.current_chunk # <<>>
                     THEN Append(st.chunks, st.current_chunk)
                     ELSE st.chunks]

\* a chunk size taken from the settings whenever they are stored, whatever
\* was passed
LoadSize_settingsfirst(chunk_size, cfg) ==
    IF cfg.present \/ chunk_size.t = "none" THEN ParamInt(CfgChunkSize(cfg)) ELSE chunk_size

\* lines 33-38: a parameter that was not passed is loaded from the settings
LoadSize(chunk_size, cfg) ==
    IF chunk_size.t = "none" THEN ParamInt(CfgChunkSize(cfg)) ELSE chunk_size
LoadOverlap(chunk_overlap, cfg) ==
    IF chunk_overlap.t = "none" THEN ParamInt(CfgChunkOverlap(cfg)) ELSE chunk_overlap

\* the try block, lines 24-81, for a text that passed "if not text" and is a
\* string: [err, chunks]; err means an exception reached the except clause
TryBody(text, chunk_size, chunk_overlap, cfg, db_ok) ==
    IF (chunk_size.t = "none" \/ chunk_overlap.t = "none") /\ ~db_ok
    THEN [err |-> TRUE, chunks |-> <<>>]
    ELSE LET size == LoadSize(chunk_size, cfg)
             overlap == LoadOverlap(chunk_overlap, cfg)
         IN IF size.t # "int" THEN [err |-> TRUE, chunks |-> <<>>]
            ELSE IF FitsOneChunk(text, size.n) THEN [err |-> FALSE, chunks |-> <<text>>]
            ELSE Finish(Loop([chunks |-> <<>>, current_chunk |-> <<>>, err |-> FALSE],
                             Split(text), size.n, overlap))

\* an except clause that logs and re-raises
ExceptClause_reraise(text) ==
    [raised |-> TRUE, chunks |-> <<>>]

\* the except clause, lines 83-86
ExceptClause(text) ==
    [raised |-> FALSE, chunks |-> IF text # <<>> THEN <<text>> ELSE <<>>]

\* chunk_text(text, chunk_size, chunk_overlap) with the settings cfg; db_ok:
\* whether get_rag_settings() answers.  Result: [raised, chunks].
chunk_text(text, chunk_size, chunk_overlap, cfg, db_ok) ==
    IF ~Truthy(text) THEN [raised |-> FALSE, chunks |-> <<>>]
    ELSE LET body == TryBody(text.s, chunk_size, chunk_overlap, cfg, db_ok)
         IN IF body.err THEN ExceptClause(text.s)
            ELSE [raised |-> FALSE, chunks |-> body.chunks]

\* texts, parameters and settings of the calls under test
TextChars == {"a", "b", NL}
Texts == {PyNone, PyNum7} \cup {PyStr(s) : s \in SeqsUpTo(TextChars, MaxTextLen)}
SizeParams == {ParamNone, ParamBad} \cup {ParamInt(n) : n \in 1..MaxChunkSize}
OverlapParams == {ParamNone, ParamBad} \cup {ParamInt(n) : n \in 0..MaxOverlap}
RagStates == {RagAbsent, RagStored(2, 0), RagStored(2, 3)}

NoChunkCall == [text |-> PyNone, chunk_size |-> ParamNone, chunk_overlap |-> ParamNone, db_ok |-> TRUE]
NoChunks == [raised |-> FALSE, chunks |-> <<>>]

\* one call of chunk_text
ChunkCall ==
    /\ c_pc = "call"
    /\ c_out' = chunk_text(c_in.text, c_in.chunk_size, c_in.chunk_overlap, rag, c_in.db_ok)
    /\ c_pc' = "done"
    /\ UNCHANGED <<c_in, c_first, rag, rag_call, regVars, settingsVars, matchVars>>

\* the same call made a second time; whether get_rag_settings() answers
\* may have changed
ChunkAgain ==
    /\ c_pc = "done"
    /\ \E db_ok \in BOOLEAN :
           c_out' = chunk_text(c_in.text, c_in.chunk_size, c_in.chunk_overlap, rag, db_ok)
    /\ c_first' = c_out
    /\ c_pc' = "again"
    /\ UNCHANGED <<c_in, rag, rag_call, regVars, settingsVars, matchVars>>

\* set_rag_settings storing whatever it is given
set_rag_settings_unchecked(cfg, chunk_size, chunk_overlap, extensions_ok) ==
    IF ~chunk_size.num \/ ~chunk_overlap.num
    THEN [raised |-> TRUE, rag |-> cfg]
    ELSE [raised |-> FALSE, rag |-> RagStored(chunk_size.n, chunk_overlap.n)]

\* set_rag_settings; extensions_ok: allowed_extensions is a list of
\* strings.  Result: [raised, rag].
set_rag_settings(cfg, chunk_size, chunk_overlap, extensions_ok) ==
    IF ~chunk_size.num \/ chunk_size.n <= 0
       \/ ~chunk_overlap.num \/ chunk_overlap.n < 0
       \/ ~extensions_ok
    THEN [raised |-> TRUE, rag |-> cfg]
    ELSE [raised |-> FALSE, rag |-> RagStored(chunk_size.n, chunk_overlap.n)]

RagSizeArgs == {Num(0), Num(1)}
RagOverlapArgs == {Num(-1), Num(0)}

\* one call of set_rag_settings
SetRagSettings ==
    \E chunk_size \in RagSizeArgs, chunk_overlap \in RagOverlapArgs,
       extensions_ok \in BOOLEAN :
        /\ rag' = set_rag_settings(rag, chunk_size, chunk_overlap, extensions_ok).rag
        /\ UNCHANGED <<c_in, c_pc, c_out, c_first, rag_call, regVars, settingsVars,
                       matchVars>>

\* arguments of the set_rag_settings calls of the settings-then-chunk
\* specification, and the texts chunked with the stored settings
RagCallSizes == {Num(0), Num(1), Num(2), NotNum}
RagCallOverlaps == {Num(-1), Num(0), Num(1), Num(3)}
RagTexts == {PyStr(s) : s \in SeqsUpTo({"a", NL}, MaxRagTextLen)}

NoRagCall == [chunk_size |-> NotNum, chunk_overlap |-> NotNum, extensions_ok |-> FALSE,
              raised |-> FALSE, called |-> FALSE]

\* one call of set_rag_settings, its arguments and outcome recorded
SetRag ==
    \E chunk_size \in RagCallSizes, chunk_overlap \in RagCallOverlaps,
       extensions_ok \in BOOLEAN :
        \E r \in {set_rag_settings(rag, chunk_size, chunk_overlap, extensions_ok)} :
           /\ rag' = r.rag
           /\ rag_call' = [chunk_size |-> chunk_size, chunk_overlap |-> chunk_overlap,
                           extensions_ok |-> extensions_ok, raised |-> r.raised,
                           called |-> TRUE]
           /\ c_in' = NoChunkCall
           /\ c_pc' = "idle"
           /\ c_out' = NoChunks
           /\ UNCHANGED <<c_first, regVars, settingsVars, matchVars>>

\* chunk_text(text): chunk_size and chunk_overlap are not passed
ChunkWithDefaults ==
    \E text \in RagTexts :
        /\ c_in' = [text |-> text, chunk_size |-> ParamNone, chunk_overlap |-> ParamNone,
                    db_ok |-> TRUE]
        /\ c_out' = chunk_text(text, ParamNone, ParamNone, rag, TRUE)
        /\ c_pc' = "done"
        /\ UNCHANGED <<c_first, rag, rag_call, regVars, settingsVars, matchVars>>

\* writes to the settings and to the registry between the two calls
SettingsWriteBetween == c_pc = "done" /\ SetRagSettings
RegistryWriteBetween == c_pc = "done" /\ EnsureDefaultAgents

\* texts and parameters of the call made twice
TwiceTexts == {PyNone} \cup {PyStr(s) : s \in SeqsUpTo({"a", NL}, MaxTextLen)}
TwiceSizes == {ParamNone, ParamBad} \cup {ParamInt(n) : n \in 1..MaxChunkSize}
TwiceOverlaps == {ParamNone, ParamBad, ParamInt(0), ParamInt(1)}

----------------------------------------------------------------------------
(* Rule evaluation on its own: one call of _doc_types_from_results and     *)
(* _matches_rules on arguments drawn from bounded sets                     *)

DocTypeEntries == {PyStr(<<"A">>), PyNum7}
KeywordEntries == {PyStr(<<"A">>), PyStr(<<"b">>), PyNum7}

KeyValues(entries) ==
    {KeyAbsent, KeyNotList} \cup {KeyList(items) : items \in SeqsUpTo(entries, MaxRuleLen)}

MatchRules ==
    {RulesNone} \cup
    {RulesObj(dt, any, all, extra) :
        dt \in KeyValues(DocTypeEntries), any \in KeyValues(KeywordEntries),
        all \in KeyValues(KeywordEntries), extra \in BOOLEAN}

MatchDocs ==
    { <<>>,
      <<DocOfType(<<"a">>)>>,
      <<DocOfType(<<"b">>), Doc("dict", MdVal(PyStr(<<>>)), MdVal(PyStr(<<"7">>)))>> }

MatchQueries == { PyNone, PyStr(<<"a","x","B">>), PyStr(<<"x","A">>) }

NoMatchCall == [rules |-> RulesNone, docs |-> <<>>, query |-> PyNone]
NoMatchOut == [doc_types |-> <<>>, matched |-> FALSE]

MatchCall ==
    /\ m_pc = "call"
    /\ LET doc_types == _doc_types_from_results(m_in.docs)
       IN m_out' = [doc_types |-> doc_types,
                    matched |-> _matches_rules(m_in.rules, doc_types, m_in.query)]
    /\ m_pc' = "done"
    /\ UNCHANGED <<m_in, regVars, settingsVars, chunkVars>>

\* what a metadata dict may hold under 'type' and under 'doc_type': nothing,
\* None, "", a string, a number that is true, a number that is false
MetadataValues ==
    { MdAbsent, MdVal(PyNone), MdVal(PyStr(<<>>)), MdVal(PyStr(<<"A">>)),
      MdVal(PyStr(<<"b">>)), MdVal(PyNum7), MdVal(PyZero) }

\* retrieved documents of every shape
Documents ==
    { Doc("missing", MdAbsent, MdAbsent), Doc("none", MdAbsent, MdAbsent) } \cup
    { Doc("dict", type, doc_type) : type \in MetadataValues, doc_type \in MetadataValues }

DocLists == SeqsUpTo(Documents, MaxDocs)

----------------------------------------------------------------------------
(* The settings table: services/settings_service.py *)

\* A row of the settings table: absent, or the JSON object stored under
\* the key
AbsentRow == [present |-> FALSE]

NoSettings == [openai |-> AbsentRow, embedding |-> AbsentRow, pinecone |-> AbsentRow]
NoReadiness == [called |-> FALSE, ready |-> FALSE, missing_keys |-> <<>>]

\* temperature is None or float(temperature) is outside 0.0 .. 2.0 (tenths);
\* float() raising counts as a rejection too
BadTemperature(temperature) ==
    ~temperature.num \/ ~(0 <= temperature.n /\ temperature.n <= 20)

\* max_tokens is None or int(max_tokens) <= 0, or int() raises
BadMaxTokens(max_tokens) == ~max_tokens.num \/ max_tokens.n <= 0

\* set_openai_settings.  Result: [raised, settings].
set_openai_settings(st, api_key, llm_model, temperature, max_tokens) ==
    IF ~Truthy(api_key) \/ ~Truthy(llm_model)
       \/ BadTemperature(temperature) \/ BadMaxTokens(max_tokens)
    THEN [raised |-> TRUE, settings |-> st]
    ELSE [raised |-> FALSE,
          settings |-> [st EXCEPT !.openai =
              [present |-> TRUE, api_key |-> api_key, llm_model |-> llm_model,
               temperature |-> temperature.n, max_tokens |-> max_tokens.n]]]

\* set_embedding_settings storing whatever it is given
set_embedding_settings_unchecked(st, embedding_model) ==
    [raised |-> FALSE,
     settings |-> [st EXCEPT !.embedding =
         [present |-> TRUE, embedding_model |-> embedding_model]]]

\* set_embedding_settings.  Result: [raised, settings].
set_embedding_settings(st, embedding_model) ==
    IF ~Truthy(embedding_model)
    THEN [raised |-> TRUE, settings |-> st]
    ELSE [raised |-> FALSE,
          settings |-> [st EXCEPT !.embedding =
              [present |-> TRUE, embedding_model |-> embedding_model]]]

PineconeMetrics == {"cosine", "dotproduct", "euclidean"}

\* set_pinecone_settings; cloud and region are stored as given and left out.
\* Result: [raised, settings].
set_pinecone_settings(st, api_key, index_name, dimension, metric, search_limit) ==
    IF ~Truthy(api_key) \/ ~Truthy(index_name)
       \/ ~dimension.num \/ dimension.n <= 0
       \/ metric \notin PineconeMetrics
       \/ ~search_limit.num
    THEN [raised |-> TRUE, settings |-> st]
    ELSE [raised |-> FALSE,
          settings |-> [st EXCEPT !.pinecone =
              [present |-> TRUE, api_key |-> api_key, index_name |-> index_name,
               dimension |-> dimension.n, metric |-> metric,
               search_limit |-> search_limit.n]]]

\* "not cfg.get(key)" over cfg = _get_setting(group) or {}, for a key
\* holding a string
MissingText(row, key) == ~row.present \/ ~Truthy(row[key])

\* the same for a key holding an integer
MissingInt(row, key) == ~row.present \/ row[key] = 0

\* the keys readiness() looks at, in the order it looks at them
RequiredKeys ==
    << "openai.api_key", "openai.llm_model", "embedding.embedding_model",
       "pinecone.api_key", "pinecone.index_name", "pinecone.dimension" >>

\* the six tests of readiness()
MissingKey(st, key) ==
    CASE key = "openai.api_key" -> MissingText(st.openai, "api_key")
      [] key = "openai.llm_model" -> MissingText(st.openai, "llm_model")
      [] key = "embedding.embedding_model" -> MissingText(st.embedding, "embedding_model")
      [] key = "pinecone.api_key" -> MissingText(st.pinecone, "api_key")
      [] key = "pinecone.index_name" -> MissingText(st.pinecone, "index_name")
      [] key = "pinecone.dimension" -> MissingInt(st.pinecone, "dimension")

\* readiness(): the missing keys in order, ready when there is none
readiness(st) ==
    LET IsMissing(key) == MissingKey(st, key)
        missing == SelectSeq(RequiredKeys, IsMissing)
    IN [called |-> TRUE, ready |-> Len(missing) = 0, missing_keys |-> missing]

\* arguments of the setters
KeyArgs == {PyNone, PyStr(<<>>), PyStr(<<"k">>), PyStr(<<"m">>)}
TemperatureArgs == {Num(3), Num(25), NotNum}
MaxTokensArgs == {Num(1000), Num(0)}
DimensionArgs == {Num(1536), Num(0), NotNum}
MetricArgs == {"cosine", "manhattan"}
SearchLimitArgs == {Num(5), NotNum}

\* what the settings functions leave alone
SettingsFrame == UNCHANGED <<regVars, matchVars, chunkVars>>

\* bookkeeping after a setter: it succeeded or not, and the last
\* readiness() result is out of date
AfterSet(group, r) ==
    /\ settings' = r.settings
    /\ s_ok' = IF r.raised THEN s_ok ELSE s_ok \cup {group}
    /\ ready' = NoReadiness
    /\ SettingsFrame

SetOpenAi ==
    \E api_key \in KeyArgs, llm_model \in KeyArgs,
       temperature \in TemperatureArgs, max_tokens \in MaxTokensArgs :
        AfterSet("openai",
                 set_openai_settings(settings, api_key, llm_model, temperature, max_tokens))

SetEmbedding ==
    \E embedding_model \in KeyArgs :
        AfterSet("embedding", set_embedding_settings(settings, embedding_model))

SetPinecone ==
    \E api_key \in KeyArgs, index_name \in KeyArgs, dimension \in DimensionArgs,
       metric \in MetricArgs, search_limit \in SearchLimitArgs :
        AfterSet("pinecone",
                 set_pinecone_settings(settings, api_key, index_name, dimension,
                                       metric, search_limit))

\* every row of the settings table deleted
ClearSettings ==
    /\ settings' = NoSettings
    /\ s_ok' = {}
    /\ ready' = NoReadiness
    /\ SettingsFrame

\* one call of readiness()
Readiness ==
    /\ ready' = readiness(settings)
    /\ UNCHANGED <<settings, s_ok>>
    /\ SettingsFrame

----------------------------------------------------------------------------
(* Specifications *)

RegIdle ==
    /\ agents = {}
    /\ last_op = "init"
    /\ op_ok = TRUE
    /\ sel = NoSelect
    /\ call = NoCall
    /\ reqs = NoReqs
    /\ chat = NoChat

SettingsIdle ==
    /\ settings = NoSettings
    /\ ready = NoReadiness
    /\ s_ok = {}

MatchIdle ==
    /\ m_in = NoMatchCall
    /\ m_pc = "idle"
    /\ m_out = NoMatchOut

ChunkIdle ==
    /\ c_in = NoChunkCall
    /\ c_pc = "idle"
    /\ c_out = NoChunks
    /\ c_first = NoChunks
    /\ rag_call = NoRagCall
    /\ rag = RagAbsent

\* the registry: an empty agents table after db.create_all()
Init == RegIdle /\ SettingsIdle /\ MatchIdle /\ ChunkIdle

Next ==
    \/ CreateAgent
    \/ UpdateAgent
    \/ DeleteAgent
    \/ EnsureDefaultAgents
    \/ Select

Spec == Init /\ [][Next]_vars

\* rule evaluation as a pure function
InitMatch ==
    /\ RegIdle
    /\ SettingsIdle
    /\ ChunkIdle
    /\ m_in \in [rules : MatchRules, docs : MatchDocs, query : MatchQueries]
    /\ m_pc = "call"
    /\ m_out = NoMatchOut

NextMatch == MatchCall

SpecMatch == InitMatch /\ [][NextMatch]_vars

\* the doc types of retrieved documents of every shape
InitDocTypes ==
    /\ RegIdle
    /\ SettingsIdle
    /\ ChunkIdle
    /\ m_in \in [rules : {DocumentationRules}, docs : DocLists, query : {PyNone}]
    /\ m_pc = "call"
    /\ m_out = NoMatchOut

NextDocTypes == MatchCall

SpecDocTypes == InitDocTypes /\ [][NextDocTypes]_vars

\* the chunker as a pure function of its arguments and the rag settings
InitChunk ==
    /\ RegIdle
    /\ SettingsIdle
    /\ MatchIdle
    /\ c_in \in [text : Texts, chunk_size : SizeParams, chunk_overlap : OverlapParams,
                 db_ok : BOOLEAN]
    /\ rag \in RagStates
    /\ c_pc = "call"
    /\ c_out = NoChunks
    /\ c_first = NoChunks
    /\ rag_call = NoRagCall

NextChunk == ChunkCall

SpecChunk == InitChunk /\ [][NextChunk]_vars

\* the routes of /api/agents and the default seeding
InitCrud == Init

NextCrud ==
    \/ RouteCreateAgent(CrudNames, {Num(DefaultTemperature)}, {Num(DefaultMaxTokens)}, CrudRules)
    \/ RouteUpdateAgent(CrudFields)
    \/ RouteDeleteAgent
    \/ SeedDefaults

SpecCrud == InitCrud /\ [][NextCrud]_vars

\* the routes of /api/agents given temperatures and max_tokens of every kind
InitParams == Init

NextParams ==
    \/ RouteCreateAgent(ParamNames, ParamTemperatures, ParamMaxTokens, CrudRules)
    \/ RouteUpdateAgent(ParamFields)
    \/ RouteDeleteAgent

SpecParams == InitParams /\ [][NextParams]_vars

\* the settings functions and readiness()
InitSettings == Init

NextSettings ==
    \/ SetOpenAi
    \/ SetEmbedding
    \/ SetPinecone
    \/ ClearSettings
    \/ Readiness

SpecSettings == InitSettings /\ [][NextSettings]_vars

\* overlapping POST /api/agents requests on an empty agents table
InitCreate ==
    /\ agents = {}
    /\ last_op = "init"
    /\ op_ok = TRUE
    /\ sel = NoSelect
    /\ call = NoCall
    /\ reqs = [w \in Workers |-> IdleRequest]
    /\ chat = NoChat
    /\ SettingsIdle
    /\ MatchIdle
    /\ ChunkIdle

NextCreate ==
    \/ \E w \in Workers : ReceiveCreate(w)
    \/ \E w \in Workers : CommitCreate(w)
    \/ \E w \in Workers : RespondCreate(w)
    \/ DeleteDuringRequests

SpecCreate == InitCreate /\ [][NextCreate]_vars

\* updates that may carry "id", on the seeded registry
InitOrder == Init

NextOrder ==
    \/ SeedDefaults
    \/ RouteUpdateAgent(OrderFields)

SpecOrder == InitOrder /\ [][NextOrder]_vars

\* overlapping ensure_default_agents invocations on an empty agents table
InitSeed ==
    /\ agents = {}
    /\ last_op = "init"
    /\ op_ok = TRUE
    /\ sel = NoSelect
    /\ call = NoCall
    /\ reqs = [w \in Workers |-> IdleSeeding]
    /\ chat = NoChat
    /\ SettingsIdle
    /\ MatchIdle
    /\ ChunkIdle

NextSeed ==
    \/ \E w \in Workers : SeedCall(w)
    \/ \E w \in Workers : SeedCount(w)
    \/ \E w \in Workers : SeedCreateDocumentation(w)
    \/ \E w \in Workers : SeedCreateCourse(w)
    \/ \E w \in Workers : SeedExcept(w)
    \/ \E w \in Workers : SeedRestart(w)

SpecSeed == InitSeed /\ [][NextSeed]_vars

\* chat requests between changes of the registry
InitChat == Init

NextChat ==
    \/ EnsureDefaultAgents
    \/ UpdateAgent
    \/ DeleteAgent
    \/ Chat

SpecChat == InitChat /\ [][NextChat]_vars

\* set_rag_settings calls, and chunk_text calls that use what they stored
InitRag == Init

NextRag ==
    \/ SetRag
    \/ ChunkWithDefaults

SpecRag == InitRag /\ [][NextRag]_vars

\* selection on a registry whose agents are given catch-all rules
InitCatchAll == Init

NextCatchAll ==
    \/ SeedDefaults
    \/ RouteUpdateAgent(CatchAllFields)
    \/ Select

SpecCatchAll == InitCatchAll /\ [][NextCatchAll]_vars

\* one chunk_text call made twice, with writes in between
InitTwice ==
    /\ RegIdle
    /\ SettingsIdle
    /\ MatchIdle
    /\ c_in \in [text : TwiceTexts, chunk_size : TwiceSizes, chunk_overlap : TwiceOverlaps,
                 db_ok : BOOLEAN]
    /\ rag \in RagStates
    /\ c_pc = "call"
    /\ c_out = NoChunks
    /\ c_first = NoChunks
    /\ rag_call = NoRagCall

NextTwice ==
    \/ ChunkCall
    \/ SettingsWriteBetween
    \/ RegistryWriteBetween
    \/ ChunkAgain

SpecTwice == InitTwice /\ [][NextTwice]_vars

----------------------------------------------------------------------------
(* Properties of agent selection *)

\* the doc types and the query of the last select call
SelDocTypes == _doc_types_from_results(sel.docs)

\* the agents of the table whose rules match the last select call
Matching == {a \in agents : _matches_rules(OrEmpty(a.rules), SelDocTypes, sel.query)}

\* C1: select_agent_for_request returns the agent with the smallest id among
\* the agents whose selection_rules match, with that agent's own
\* selection_rules, and (None, None) when no agent matches.
C1_FirstMatchWins ==
    last_op = "select" =>
        IF Matching = {}
        THEN sel.result = NoMatch
        ELSE /\ sel.result.found
             /\ sel.result.agent \in Matching
             /\ \A a \in Matching : sel.result.agent.id <= a.id
             /\ sel.result.rules = sel.result.agent.rules

\* two agents match and the later one has the more specific rules
C1_Witness ==
    /\ last_op = "select"
    /\ \E a, b \in Matching :
        /\ a.id < b.id
        /\ sel.result.agent = a
        /\ IsNonEmptyList(b.rules.dt) /\ IsNonEmptyList(b.rules.all)
        /\ ~IsNonEmptyList(a.rules.all)

\* selection_rules is {} or missing (None)
EmptyOrMissing(r) == r = RulesEmpty \/ r = RulesNone

\* C2: an agent whose selection_rules is {} or missing is never returned by
\* select_agent_for_request.
C2_EmptyRulesNeverMatch ==
    last_op = "select" =>
        \A a \in agents :
            EmptyOrMissing(a.rules) => ~(sel.result.found /\ sel.result.agent.id = a.id)

\* an agent without rules comes first and a later agent is returned; and a
\* table whose only agent has missing rules selects nothing
C2_Witness ==
    /\ last_op = "select"
    /\ \/ \E a, b \in agents :
            /\ a.id < b.id
            /\ a.rules = RulesEmpty
            /\ sel.result.found /\ sel.result.agent = b
       \/ /\ \E a \in agents : a.rules = RulesNone
          /\ sel.docs # <<>>
          /\ ~sel.result.found

\* C4: on an empty registry select_agent_for_request returns (None, None)
\* for every list of documents and every query, without raising.
C4_NoAgents ==
    (last_op = "select" /\ agents = {}) => (op_ok /\ sel.result = NoMatch)

\* a select with documents and a query on the empty table
C4_Witness ==
    /\ last_op = "select"
    /\ agents = {}
    /\ sel.docs # <<>>
    /\ Truthy(sel.query)
    /\ sel.result = NoMatch

\* kw is a case-insensitive substring of the query text q
SubstringCI(kw, q) == Contains(Lower(kw), Lower(q))

\* the text of a query (None has no text)
QueryText(query) == IF query.t = "str" THEN query.s ELSE <<>>

\* the rules hold keyword lists only, each satisfied by the query
KeywordOnlySatisfied(r, query) ==
    /\ r.obj /\ r.dt.k = "absent" /\ ~r.extra
    /\ r.any.k \in {"absent", "list"} /\ r.all.k \in {"absent", "list"}
    /\ IsNonEmptyList(r.any) \/ IsNonEmptyList(r.all)
    /\ \A i \in 1..Len(r.any.items) : IsStr(r.any.items[i])
    /\ \A i \in 1..Len(r.all.items) : IsStr(r.all.items[i])
    /\ IsNonEmptyList(r.any) =>
           \E i \in 1..Len(r.any.items) : SubstringCI(r.any.items[i].s, QueryText(query))
    /\ \A i \in 1..Len(r.all.items) : SubstringCI(r.all.items[i].s, QueryText(query))

\* C5: with no retrieved documents no agent whose rules have a non-empty
\* doc_type_any_of list is selected, while an agent with keyword rules only,
\* satisfied by the query, is selected unless an earlier agent matches.
C5_NoDocuments ==
    (last_op = "select" /\ sel.docs = <<>>) =>
        /\ sel.result.found => ~IsNonEmptyList(sel.result.agent.rules.dt)
        /\ \A a \in agents :
               KeywordOnlySatisfied(a.rules, sel.query) =>
                   /\ sel.result.found
                   /\ sel.result.agent.id <= a.id
                   /\ (\A b \in Matching : b.id >= a.id) => sel.result.agent = a

\* no documents: the agent with a doc type rule is passed over and the later
\* agent with keyword rules is selected
C5_Witness ==
    /\ last_op = "select"
    /\ sel.docs = <<>>
    /\ \E a, b \in agents :
        /\ a.id < b.id
        /\ IsNonEmptyList(a.rules.dt)
        /\ KeywordOnlySatisfied(b.rules, sel.query)
        /\ sel.result.found /\ sel.result.agent = b

----------------------------------------------------------------------------
(* Properties of rule evaluation *)

\* a rules object that is not {}
NonEmptyObject(r) ==
    r.obj /\ (r.dt.k # "absent" \/ r.any.k # "absent" \/ r.all.k # "absent" \/ r.extra)

\* a rule key of the persisted shape: absent, or a list of strings
ListOfStrings(v) ==
    v.k = "absent" \/ (v.k = "list" /\ \A i \in 1..Len(v.items) : IsStr(v.items[i]))

AbsentOrEmpty(v) == v.k = "absent" \/ (v.k = "list" /\ v.items = <<>>)

\* C3: for a non-empty rules object whose keys hold lists of strings,
\* _matches_rules is the conjunction of: doc_type_any_of absent/empty or one
\* entry equal, ignoring case, to a derived doc type; keyword_any_of
\* absent/empty or one keyword a case-insensitive substring of the query;
\* keyword_all_of absent/empty or every keyword such a substring.
C3_Conjunction ==
    (/\ m_pc = "done"
     /\ NonEmptyObject(m_in.rules)
     /\ ListOfStrings(m_in.rules.dt)
     /\ ListOfStrings(m_in.rules.any)
     /\ ListOfStrings(m_in.rules.all)) =>
        LET r == m_in.rules
            q == QueryText(m_in.query)
            types == m_out.doc_types
            docTypeOk ==
                AbsentOrEmpty(r.dt) \/
                \E i \in 1..Len(r.dt.items), j \in 1..Len(types) :
                    Lower(r.dt.items[i].s) = Lower(types[j])
            anyOk ==
                AbsentOrEmpty(r.any) \/
                \E i \in 1..Len(r.any.items) : SubstringCI(r.any.items[i].s, q)
            allOk ==
                AbsentOrEmpty(r.all) \/
                \A i \in 1..Len(r.all.items) : SubstringCI(r.all.items[i].s, q)
        IN m_out.matched = (docTypeOk /\ anyOk /\ allOk)

\* all three keys hold non-empty lists, keyword_all_of two different
\* keywords, and the rules match
C3_Witness ==
    /\ m_pc = "done"
    /\ m_out.matched
    /\ ListOfStrings(m_in.rules.dt) /\ IsNonEmptyList(m_in.rules.dt)
    /\ ListOfStrings(m_in.rules.any) /\ IsNonEmptyList(m_in.rules.any)
    /\ ListOfStrings(m_in.rules.all) /\ Len(m_in.rules.all.items) = 2
    /\ m_in.rules.all.items[1] # m_in.rules.all.items[2]

----------------------------------------------------------------------------
(* Properties of the chunker *)

\* chunk_size and chunk_overlap as the call uses them: the argument, or the
\* stored setting when the argument is None
UsedSize == LoadSize(c_in.chunk_size, rag)
UsedOverlap == LoadOverlap(c_in.chunk_overlap, rag)

\* a call on a string with integer parameters that reads its settings
\* without error: the loop runs to its end
PlainCall ==
    /\ c_pc = "done"
    /\ IsStr(c_in.text)
    /\ UsedSize.t = "int" /\ UsedOverlap.t = "int"
    /\ (c_in.chunk_size.t = "none" \/ c_in.chunk_overlap.t = "none") => c_in.db_ok

\* such a call on a text longer than chunk_size
LongCall == PlainCall /\ Len(c_in.text.s) > UsedSize.n

Chunks == c_out.chunks
Paragraphs == Split(c_in.text.s)

\* u is a suffix of s (the empty string and s itself included)
IsSuffix(u, s) == Len(u) <= Len(s) /\ u = DropFirst(s, Len(s) - Len(u))

HasNewline(s) == \E i \in 1..Len(s) : s[i] = NL

\* chunk k is one paragraph: alone if it is the first chunk, else after a
\* suffix of the previous chunk and a newline
SingleParagraphChunk(k) ==
    IF k = 1 THEN ~HasNewline(Chunks[1])
    ELSE \E n \in 0..Len(Chunks[k - 1]) :
            /\ Len(Chunks[k]) > n
            /\ SubSeq(Chunks[k], 1, n) = DropFirst(Chunks[k - 1], Len(Chunks[k - 1]) - n)
            /\ Chunks[k][n + 1] = NL
            /\ ~HasNewline(DropFirst(Chunks[k], n + 1))

LastChars(s, n) == IF Len(s) <= n THEN s ELSE SubSeq(s, Len(s) - n + 1, Len(s))

\* s begins with u
StartsWith(s, u) == Len(u) <= Len(s) /\ SubSeq(s, 1, Len(u)) = u

\* C7: for every chunk_overlap >= 0, every chunk after the first begins with
\* exactly the last chunk_overlap characters of the previous chunk (the whole
\* previous chunk if it is shorter), then a newline, then a paragraph.
C7_OverlapPrefix ==
    LongCall =>
        \A k \in 2..Len(Chunks) :
            LET prefix == LastChars(Chunks[k - 1], UsedOverlap.n) \o <<NL>>
            IN /\ StartsWith(Chunks[k], prefix)
               /\ \E i \in 1..Len(Paragraphs) :
                      StartsWith(DropFirst(Chunks[k], Len(prefix)), Paragraphs[i])

\* C8: chunk_text returns [] when text is empty or None, and [text] whenever
\* 0 < len(text) <= chunk_size, whatever chunk_overlap is.
C8_EmptyAndShort ==
    c_pc = "done" =>
        /\ (c_in.text = PyNone \/ c_in.text = PyStr(<<>>)) => c_out = NoChunks
        /\ (/\ IsStr(c_in.text)
            /\ UsedSize.t = "int"
            /\ 0 < Len(c_in.text.s)
            /\ Len(c_in.text.s) <= UsedSize.n) =>
               c_out = [raised |-> FALSE, chunks |-> <<c_in.text.s>>]

\* a text of exactly chunk_size characters that starts with a newline comes
\* back unchanged, with a chunk_overlap that is no integer
C8_Witness ==
    /\ c_pc = "done"
    /\ IsStr(c_in.text)
    /\ c_in.chunk_size.t = "int"
    /\ Len(c_in.text.s) = c_in.chunk_size.n
    /\ c_in.text.s[1] = NL
    /\ c_in.chunk_overlap.t = "bad"
    /\ c_out.chunks = <<c_in.text.s>>

\* chunk k without its overlap prefix and the newline after it
Body(k) ==
    IF k = 1 THEN Chunks[1]
    ELSE DropFirst(Chunks[k], Len(OverlapText(Chunks[k - 1], UsedOverlap.n)) + 1)

\* the paragraphs carried by chunks k..n, in order
RECURSIVE CarriedFrom(_)
CarriedFrom(k) ==
    IF k > Len(Chunks) THEN <<>> ELSE Split(Body(k)) \o CarriedFrom(k + 1)

Carried == CarriedFrom(1)

\* ps without the empty paragraphs before its first non-empty one
RECURSIVE DropLeadingEmpty(_)
DropLeadingEmpty(ps) ==
    IF ps = <<>> THEN <<>>
    ELSE IF Head(ps) = <<>> THEN DropLeadingEmpty(Tail(ps))
    ELSE ps

\* C9 as stated: for a text longer than chunk_size the paragraphs carried by
\* the chunks, overlap prefixes excluded, are in order exactly the paragraphs
\* of text.split("\n"), leading empty paragraphs included.
C9_AsStated == LongCall => Carried = Paragraphs

\* C9 amended: for a text longer than chunk_size the paragraphs carried by
\* the chunks, overlap prefixes excluded, are in order the paragraphs of
\* text.split("\n") from the first non-empty paragraph on; the empty
\* paragraphs of leading newlines are dropped.
C9_ParagraphsKept == LongCall => Carried = DropLeadingEmpty(Paragraphs)

\* a text with a leading newline and an empty paragraph in the middle, split
\* into several chunks
C9_Witness ==
    /\ LongCall
    /\ Len(Chunks) >= 2
    /\ Head(Paragraphs) = <<>>
    /\ \E i \in 2..Len(DropLeadingEmpty(Paragraphs)) : DropLeadingEmpty(Paragraphs)[i] = <<>>
    /\ Carried = DropLeadingEmpty(Paragraphs)
    /\ Carried # Paragraphs

\* an exception reaches the except clause of this call
InternalError ==
    /\ Truthy(c_in.text)
    /\ TryBody(c_in.text.s, c_in.chunk_size, c_in.chunk_overlap, rag, c_in.db_ok).err

\* C10: chunk_text never raises; when an internal error occurs while
\* splitting a non-empty text the result is the one-element list holding the
\* entire text.
C10_NeverRaises ==
    c_pc = "done" =>
        /\ ~c_out.raised
        /\ InternalError => c_out.chunks = <<c_in.text.s>>

\* the comparison with a chunk_overlap that is no integer fails in the loop,
\* after a first chunk was completed
C10_Witness ==
    /\ c_pc = "done"
    /\ InternalError
    /\ c_in.chunk_size.t = "int"
    /\ c_in.chunk_overlap.t = "bad"
    /\ HasNewline(c_in.text.s)
    /\ c_out = [raised |-> FALSE, chunks |-> <<c_in.text.s>>]

----------------------------------------------------------------------------
(* Properties of the registry operations *)

\* name and selection rules of every row
NameAndRules(as) == {[name |-> a.name, rules |-> a.rules] : a \in as}

\* what the two default agents are called and the rules they carry
DefaultAgents ==
    { [name |-> "documentation", rules |-> DocumentationRules],
      [name |-> "course", rules |-> CourseRules] }

\* C11: ensure_default_agents changes the registry only when it is empty.
\* Run on an empty registry it leaves exactly two agents, "documentation"
\* with {doc_type_any_of: [documentation]} and "course" with
\* {doc_type_any_of: [course]}; run on a registry that holds any agent it
\* changes nothing, so a second run in a row finds the two agents and
\* leaves them.
C11_SeedOnlyWhenEmpty ==
    [][call'.op = "seed" =>
          /\ agents' # {}
          /\ IF agents = {}
             THEN Cardinality(agents') = 2 /\ NameAndRules(agents') = DefaultAgents
             ELSE agents' = agents]_vars

\* the seeding has run on a registry that holds an agent but neither default
C11_Witness ==
    /\ call.op = "seed"
    /\ agents # {}
    /\ Names(agents) \cap {"documentation", "course"} = {}

\* C12: whatever creates, updates (renames included), deletes and seedings
\* have run, no two agents in the registry share a name.
C12_NamesUnique ==
    \A a \in agents, b \in agents : a.name = b.name => a = b

\* a rename to a name another agent holds has just been turned down
C12_Witness ==
    /\ call.op = "update"
    /\ "name" \in Named(call.fields)
    /\ call.status = 400
    /\ Cardinality(agents) = 2

\* C13: every agent stored in the registry has a temperature within
\* 0.0 .. 2.0 (0 .. 20 tenths) and max_tokens > 0, because a create or an
\* update with a value outside these ranges is rejected before anything is
\* persisted.
C13_StoredInRange ==
    \A a \in agents :
        /\ 0 <= a.temperature /\ a.temperature <= 20
        /\ a.max_tokens > 0

\* the agents other than the one with this id
Others(as, agent_id) == {a \in as : a.id # agent_id}

\* the update passes a name that another agent holds
NameClash(as, agent_id, fields) ==
    fields.name.set /\ fields.name.v \in Names(Others(as, agent_id))

\* C15: update_agent with an id that is not in the registry returns None
\* (PUT answers 404) and leaves the registry unchanged; with the id of an
\* agent that is in the registry it succeeds (PUT answers 200).  A rename to
\* a name that another agent holds is left aside.
C15_UpdateOutcome ==
    [][call'.op = "update" =>
          IF call'.id \notin Ids(agents)
          THEN call'.status = 404 /\ agents' = agents
          ELSE NameClash(agents, call'.id, call'.fields) \/ call'.status = 200]_vars

\* C16: update_agent on an existing agent changes only the fields named in
\* the call: every other agent is left as it was, the fields not named keep
\* their values, and keys that are not agent fields ("bogus", "agent_id")
\* are ignored without error, so that the update is answered 200 and the
\* named fields hold the values passed.  A rename to a name that another
\* agent holds is left aside.
C16_OnlyNamedFieldsChange ==
    [][(call'.op = "update" /\ call'.id \in Ids(agents)
          /\ ~NameClash(agents, call'.id, call'.fields)) =>
          LET f == call'.fields
              old == GetAgent(agents, call'.id)
              new == GetAgent(agents', call'.id)
          IN /\ call'.status = 200
             /\ Others(agents', call'.id) = Others(agents, call'.id)
             /\ call'.id \in Ids(agents')
             /\ new.name = (IF f.name.set THEN f.name.v ELSE old.name)
             /\ new.rules = (IF f.rules.set THEN f.rules.v ELSE old.rules)
             /\ new.temperature = old.temperature
             /\ new.max_tokens = old.max_tokens]_vars

\* C17: delete_agent returns True (DELETE answers 200) exactly when the id
\* is in the registry; afterwards the id is absent and every other agent is
\* as it was; deleting the same id again returns False (404).
C17_DeleteOutcome ==
    [][call'.op = "delete" =>
          /\ call'.status = (IF call'.id \in Ids(agents) THEN 200 ELSE 404)
          /\ call'.id \notin Ids(agents')
          /\ agents' = Others(agents, call'.id)
          /\ (call.op = "delete" /\ call.id = call'.id) => call'.status = 404]_vars

\* an agent has just been deleted and another one is still there
C17_Witness ==
    /\ call.op = "delete"
    /\ call.status = 200
    /\ agents # {}

\* C18: select_agent_for_request evaluates the registry as it is when it is
\* called: the agent it returns is a row of the table at that time, so an
\* agent that has been deleted is not returned again, the rules it returns
\* are the rules that row holds now, and an agent whose rules were updated
\* is selected or passed over according to its new rules.
C18_CurrentRegistry ==
    last_op = "select" =>
        /\ sel.result.found =>
               /\ sel.result.agent \in agents
               /\ sel.result.rules = OrEmpty(GetAgent(agents, sel.result.agent.id).rules)
               /\ _matches_rules(sel.result.rules, SelDocTypes, sel.query)
        /\ ~sel.result.found =>
               \A a \in agents : ~_matches_rules(OrEmpty(a.rules), SelDocTypes, sel.query)

\* after the seeding the documentation agent (id 1) was deleted and the
\* course agent was given other rules; a request whose documents are typed
\* documentation, which the deleted agent matched, selects the course agent
\* under its new rules
C18_Witness ==
    /\ last_op = "select"
    /\ 1 \notin Ids(agents)
    /\ \E i \in 1..Len(SelDocTypes) : SelDocTypes[i] = DOCUMENTATION
    /\ \E a \in agents :
           /\ a.name = "course"
           /\ a.rules # CourseRules
           /\ ~IsNonEmptyList(a.rules.dt)
           /\ sel.result.found
           /\ sel.result.agent = a

----------------------------------------------------------------------------
(* Properties of the settings *)

\* the settings group holds a non-empty string under the field
StoredText(group, field) ==
    /\ settings[group].present
    /\ settings[group][field].t = "str"
    /\ Len(settings[group][field].s) > 0

\* the settings group holds a number other than zero under the field
StoredNumber(group, field) ==
    settings[group].present /\ settings[group][field] # 0

\* the required keys that are stored with a non-empty value
StoredKeys ==
    {k \in {"openai.api_key"} : StoredText("openai", "api_key")}
    \cup {k \in {"openai.llm_model"} : StoredText("openai", "llm_model")}
    \cup {k \in {"embedding.embedding_model"} : StoredText("embedding", "embedding_model")}
    \cup {k \in {"pinecone.api_key"} : StoredText("pinecone", "api_key")}
    \cup {k \in {"pinecone.index_name"} : StoredText("pinecone", "index_name")}
    \cup {k \in {"pinecone.dimension"} : StoredNumber("pinecone", "dimension")}

SixKeys ==
    {"openai.api_key", "openai.llm_model", "embedding.embedding_model",
     "pinecone.api_key", "pinecone.index_name", "pinecone.dimension"}

\* C19: readiness() reports ready exactly when missing_keys is empty, and
\* missing_keys holds exactly those of the six required keys that are not
\* stored with a non-empty value; so it is not ready when every setting has
\* been cleared, and it is ready once set_openai_settings,
\* set_embedding_settings and set_pinecone_settings have each succeeded, in
\* whatever order.
C19_Readiness ==
    ready.called =>
        /\ ready.ready <=> (ready.missing_keys = <<>>)
        /\ {ready.missing_keys[i] : i \in 1..Len(ready.missing_keys)} = SixKeys \ StoredKeys
        /\ settings = NoSettings => (~ready.ready /\ Len(ready.missing_keys) = 6)
        /\ s_ok = {"openai", "embedding", "pinecone"} => ready.ready

\* readiness() answers ready after the three setters have succeeded
C19_Witness ==
    /\ ready.called
    /\ ready.ready
    /\ s_ok = {"openai", "embedding", "pinecone"}

----------------------------------------------------------------------------
(* Properties of the chunker called twice *)

\* chunk_size and chunk_overlap were both passed
ExplicitCall == c_in.chunk_size.t # "none" /\ c_in.chunk_overlap.t # "none"

\* C20: chunk_text given chunk_size and chunk_overlap is a function of its
\* three arguments only: the same call made again returns the same list of
\* chunks, whatever was written to the settings and to the registry in
\* between and whether or not the settings can be read.
C20_SameArgumentsSameChunks ==
    (c_pc = "again" /\ ExplicitCall) => c_out = c_first

\* the call was repeated after the rag settings were replaced and the
\* default agents were seeded, and it returned several chunks
C20_Witness ==
    /\ c_pc = "again"
    /\ ExplicitCall
    /\ c_in.chunk_size.t = "int"
    /\ rag = RagStored(1, 0)
    /\ agents # {}
    /\ Len(c_out.chunks) >= 2

----------------------------------------------------------------------------
(* Properties of overlapping creates *)

\* C14: a create whose name another agent holds by the time it commits,
\* whether the other create finished before this one began or the two
\* overlap, fails: the request is answered 400 (201 is answered only when
\* the name was free), the table, the existing agent included, is left as it
\* was, no two agents ever share a name, and the registry stays usable: the
\* worker's session is clean when the request is over and a later create
\* with a free name goes through.
C14_DuplicateCreateFails ==
    [][\A w \in Workers :
          /\ (reqs[w].pc = "added" /\ reqs'[w].pc # "added") =>
                 IF reqs[w].name \in Names(agents)
                 THEN reqs'[w].pc = "raised" /\ agents' = agents
                 ELSE /\ reqs'[w].pc = "committed"
                      /\ \E a \in agents' \ agents : a.name = reqs[w].name
          /\ (reqs[w].pc = "raised" /\ reqs'[w].pc = "idle") => reqs'[w].status = 400
          /\ (reqs[w].pc = "committed" /\ reqs'[w].pc = "idle") => reqs'[w].status = 201
          /\ reqs'[w].pc = "idle" => reqs'[w].sess = "clean"
          /\ \A a \in agents', b \in agents' : a.name = b.name => a = b]_vars

\* two requests for one name are in flight together: one has committed and
\* not answered yet, the commit of the other has raised
C14_Witness ==
    \E v \in Workers, w \in Workers :
        /\ reqs[v].pc = "committed"
        /\ reqs[w].pc = "raised"
        /\ reqs[v].name = reqs[w].name
        /\ Cardinality({a \in agents : a.name = reqs[w].name}) = 1

----------------------------------------------------------------------------
(* Properties of the doc types *)

\* the metadata key holds a non-empty string
NonEmptyString(f) == f.has /\ f.v.t = "str" /\ f.v.s # <<>>

\* the metadata key is absent or holds an empty value: None, "", or a
\* number that is false
AbsentOrEmptyValue(f) ==
    ~f.has \/ f.v.t = "none" \/ (f.v.t = "str" /\ f.v.s = <<>>) \/ (f.v.t = "other" /\ ~f.v.tr)

\* what one document adds to the doc types
Contribution(d) ==
    IF d.md # "dict" THEN <<>>
    ELSE IF NonEmptyString(d.type) THEN <<Lower(d.type.v.s)>>
    ELSE IF AbsentOrEmptyValue(d.type) /\ d.doc_type.has /\ d.doc_type.v.t = "str"
         THEN <<Lower(d.doc_type.v.s)>>
    ELSE <<>>

RECURSIVE Contributions(_)
Contributions(docs) ==
    IF docs = <<>> THEN <<>> ELSE Contribution(Head(docs)) \o Contributions(Tail(docs))

\* every document carries both keys, 'type' a non-empty string
BothKeys(docs) ==
    \A i \in 1..Len(docs) :
        docs[i].md = "dict" /\ NonEmptyString(docs[i].type) /\ docs[i].doc_type.has

\* C21: the doc types are, document by document and in the order of the
\* documents, the lower-cased 'type' when it is a non-empty string, otherwise
\* the lower-cased 'doc_type' when 'type' is absent or empty and 'doc_type'
\* is a string; a document with missing or null metadata, or whose chosen
\* value is not a string, adds nothing, and documents that carry both keys
\* add their 'type' only.
C21_DocTypes ==
    m_pc = "done" =>
        /\ m_out.doc_types = Contributions(m_in.docs)
        /\ BothKeys(m_in.docs) =>
               m_out.doc_types = [i \in 1..Len(m_in.docs) |-> Lower(m_in.docs[i].type.v.s)]

\* a document that carries both keys and one whose 'type' is "" have been
\* turned into the doc types "a" and "b"
C21_Witness ==
    /\ m_pc = "done"
    /\ m_in.docs = << Doc("dict", MdVal(PyStr(<<"A">>)), MdVal(PyStr(<<"b">>))),
                      Doc("dict", MdVal(PyStr(<<>>)), MdVal(PyStr(<<"b">>))) >>
    /\ m_out.doc_types = << <<"a">>, <<"b">> >>

----------------------------------------------------------------------------
(* Properties of the seeded registry *)

\* the names of a list of agents, in the order of the list
NamesInOrder(lst) == [i \in 1..Len(lst) |-> lst[i].name]

\* a 'documentation' and a 'course' doc type are both among the doc types
BothDocTypes(doc_types) ==
    /\ \E i \in 1..Len(doc_types) : doc_types[i] = DOCUMENTATION
    /\ \E i \in 1..Len(doc_types) : doc_types[i] = COURSE

\* C22: once ensure_default_agents has seeded an empty registry the
\* 'documentation' agent comes before the 'course' agent in selection order,
\* and a request on the seeded registry whose documents carry both a
\* 'documentation' and a 'course' type selects 'documentation', in whatever
\* order the documents were retrieved.
C22_DocumentationBeforeCourse ==
    [][/\ (agents = {} /\ last_op' = "seed") =>
              NamesInOrder(list_agents(agents')) = <<"documentation", "course">>
       /\ (/\ last_op' = "select"
           /\ Cardinality(agents) = 2
           /\ NamesInOrder(list_agents(agents)) = <<"documentation", "course">>
           /\ NameAndRules(agents) = DefaultAgents
           /\ BothDocTypes(_doc_types_from_results(sel'.docs))) =>
              /\ sel'.result.found
              /\ sel'.result.agent.name = "documentation"]_vars

\* a request whose first document is a course and whose second is a
\* documentation has been answered on the seeded registry
C22_Witness ==
    /\ last_op = "select"
    /\ NamesInOrder(list_agents(agents)) = <<"documentation", "course">>
    /\ NameAndRules(agents) = DefaultAgents
    /\ sel.docs = <<DocOfType(COURSE), DocOfType(DOCUMENTATION)>>
    /\ sel.result.agent.name = "documentation"

----------------------------------------------------------------------------
(* Properties of the selection order *)

\* a comes before b in the order select_agent_for_request evaluates agents
Precedes(as, a, b) ==
    \E i \in 1..Len(list_agents(as)), j \in 1..Len(list_agents(as)) :
        i < j /\ list_agents(as)[i].name = a /\ list_agents(as)[j].name = b

\* C23: no update_agent call, whatever fields it passes, changes the relative
\* order in which select_agent_for_request evaluates two agents that are in
\* the registry (no update of this specification renames an agent, so an
\* agent is known by its name).
C23_OrderStable ==
    [][call'.op = "update" =>
          \A a \in Names(agents), b \in Names(agents) :
              (a \in Names(agents') /\ b \in Names(agents')) =>
                  (Precedes(agents, a, b) <=> Precedes(agents', a, b))]_vars

----------------------------------------------------------------------------
(* Properties of overlapping seedings *)

\* every invocation is over
SeedingsOver == \A w \in Workers : reqs[w].pc \in {"returned", "failed"}

\* C24: when ensure_default_agents invocations overlap on an empty registry,
\* no invocation fails with a uniqueness violation, no session is left in a
\* failed transaction, and when all are over the registry holds exactly the
\* two default agents.
C24_OverlappingSeedsInsertOnce ==
    /\ \A w \in Workers : reqs[w].pc \notin {"raised", "failed"} /\ reqs[w].sess = "clean"
    /\ SeedingsOver => (Cardinality(agents) = 2 /\ NameAndRules(agents) = DefaultAgents)

----------------------------------------------------------------------------
(* Properties of the chat route *)

\* C25: the agent type POST /api/chat uses for the retrieved documents and
\* the message is the name of the agent select_agent_for_request returns for
\* them in the registry as it is at the time of the request.
C25_ChatFollowsRegistry ==
    [][(last_op' = "chat" /\ chat'.status = 200) =>
          \E r \in {select_agent_for_request(agents, chat'.docs, chat'.message)} :
              r.found /\ chat'.agent_type = r.agent.name]_vars

----------------------------------------------------------------------------
(* Properties of the rag settings *)

\* the arguments set_rag_settings rejects for their range
OutOfRange(c) ==
    (c.chunk_size.num /\ c.chunk_size.n <= 0) \/ (c.chunk_overlap.num /\ c.chunk_overlap.n < 0)

\* C26: the stored rag settings always have chunk_size >= 1 and
\* chunk_overlap >= 0; a set_rag_settings call rejected for chunk_size <= 0
\* or chunk_overlap < 0 raises and leaves the stored settings as they were;
\* a call in range with a list of extensions stores its two numbers even
\* when chunk_overlap >= chunk_size; and chunk_text called without the two
\* parameters chunks as if the stored numbers had been passed.
C26_RagSettingsInRange ==
    [][/\ rag'.present => (rag'.chunk_size >= 1 /\ rag'.chunk_overlap >= 0)
       /\ (rag_call'.called /\ c_pc' = "idle" /\ OutOfRange(rag_call')) =>
              (rag_call'.raised /\ rag' = rag)
       /\ (/\ rag_call'.called /\ c_pc' = "idle"
           /\ rag_call'.chunk_size.num /\ rag_call'.chunk_overlap.num
           /\ ~OutOfRange(rag_call') /\ rag_call'.extensions_ok) =>
              rag' = RagStored(rag_call'.chunk_size.n, rag_call'.chunk_overlap.n)
       /\ (c_pc' = "done" /\ rag'.present) =>
              c_out' = chunk_text(c_in'.text, ParamInt(rag'.chunk_size),
                                  ParamInt(rag'.chunk_overlap), RagAbsent, FALSE)]_vars

\* chunk_overlap 3 is stored with chunk_size 2 and a text of three
\* paragraphs has been chunked with them
C26_Witness ==
    /\ rag = RagStored(2, 3)
    /\ c_pc = "done"
    /\ c_in.text = PyStr(<<"a", NL, "a">>)
    /\ Len(c_out.chunks) > 1

----------------------------------------------------------------------------
(* Properties of selection as a query *)

\* C27: select_agent_for_request is read-only: whatever the registry holds
\* and whatever documents and query it is given, and whether it returns an
\* agent or (None, None), the agents and all their fields, rules included,
\* are after the call what they were before it.
C27_SelectReadOnly ==
    [][last_op' = "select" => agents' = agents]_vars

\* a select has returned an agent from a table in which one agent has no
\* selection rules at all
C27_Witness ==
    /\ last_op = "select"
    /\ sel.result.found
    /\ \E a \in agents : a.rules = RulesNone

----------------------------------------------------------------------------
(* Properties of catch-all rules *)

\* the key is absent, not a list, or an empty list
NoConstraint(v) == v.k \in {"absent", "notlist"} \/ (v.k = "list" /\ Len(v.items) = 0)

\* a non-empty rules object none of whose recognised keys constrains
CatchAll(r) ==
    /\ NonEmptyObject(r)
    /\ NoConstraint(r.dt)
    /\ NoConstraint(r.any)
    /\ NoConstraint(r.all)

\* C28: an agent whose selection_rules are a non-empty object in which each
\* of doc_type_any_of, keyword_any_of and keyword_all_of is absent, not a
\* list or an empty list is selected, with those rules, for every request
\* that no agent before it matches.
C28_CatchAllSelected ==
    [][last_op' = "select" =>
          \A a \in agents :
              (/\ CatchAll(a.rules)
               /\ \A b \in agents :
                      b.id < a.id =>
                          ~_matches_rules(OrEmpty(b.rules),
                                          _doc_types_from_results(sel'.docs),
                                          sel'.query)) =>
                  /\ sel'.result.found
                  /\ sel'.result.agent = a
                  /\ sel'.result.rules = a.rules]_vars

\* the second agent, whose rules are {"doc_type_any_of": []}, has been
\* selected for a request with a course document, which the rules of the
\* first agent do not match
C28_Witness ==
    /\ last_op = "select"
    /\ sel.docs = <<DocOfType(COURSE)>>
    /\ sel.result.found
    /\ sel.result.agent.id = 2
    /\ sel.result.agent.rules = RulesObj(KeyList(<<>>), KeyAbsent, KeyAbsent, FALSE)
    /\ \E b \in agents : b.id = 1 /\ b.rules = DocumentationRules

----------------------------------------------------------------------------
(* Properties of the chunks as a list *)

\* a call on a string with chunk_size >= 1 and chunk_overlap >= 0, passed
\* or loaded from the settings
InRangeCall(in, cfg) ==
    /\ IsStr(in.text)
    /\ LoadSize(in.chunk_size, cfg).t = "int" /\ LoadSize(in.chunk_size, cfg).n >= 1
    /\ LoadOverlap(in.chunk_overlap, cfg).t = "int"
    /\ LoadOverlap(in.chunk_overlap, cfg).n >= 0
    /\ (in.chunk_size.t = "none" \/ in.chunk_overlap.t = "none") => in.db_ok

\* C29: for every text, every chunk_size >= 1 and every chunk_overlap >= 0,
\* chunk_overlap >= chunk_size included, the step of chunk_text ends the
\* call with a result, and the result is a list of non-empty chunks with at
\* most as many chunks as the text has newline-separated paragraphs.
C29_ReturnsNonEmptyChunks ==
    [][(c_pc = "call" /\ InRangeCall(c_in, rag)) =>
          /\ c_pc' = "done"
          /\ ~c_out'.raised
          /\ \A k \in 1..Len(c_out'.chunks) : Len(c_out'.chunks[k]) > 0
          /\ Len(c_out'.chunks) <= Len(Split(c_in.text.s))]_vars

\* with chunk_overlap above chunk_size a text of three paragraphs, the
\* second one empty, came back as three chunks
C29_Witness ==
    /\ c_pc = "done"
    /\ InRangeCall(c_in, rag)
    /\ UsedOverlap.n > UsedSize.n
    /\ Len(Paragraphs) = 3
    /\ Paragraphs[2] = <<>>
    /\ Len(Chunks) = 3

\* the length of the longest paragraph of the text
LongestParagraph ==
    CHOOSE n \in 0..Len(c_in.text.s) :
        /\ \E i \in 1..Len(Paragraphs) : Len(Paragraphs[i]) = n
        /\ \A i \in 1..Len(Paragraphs) : Len(Paragraphs[i]) <= n

Larger(a, b) == IF a >= b THEN a ELSE b

\* C30: for chunk_size >= 1 and chunk_overlap >= 1 every chunk has length at
\* most max(chunk_size, chunk_overlap + 1 + length of the longest
\* paragraph), and a chunk longer than chunk_size is a single paragraph,
\* alone or after an overlap prefix and a newline.
C30_ChunkLengthBound ==
    (PlainCall /\ UsedSize.n >= 1 /\ UsedOverlap.n >= 1) =>
        \A k \in 1..Len(Chunks) :
            /\ Len(Chunks[k]) <= Larger(UsedSize.n, UsedOverlap.n + 1 + LongestParagraph)
            /\ Len(Chunks[k]) > UsedSize.n =>
                   \/ k = 1 /\ \E i \in 1..Len(Paragraphs) : Chunks[k] = Paragraphs[i]
                   \/ k > 1 /\ \E i \in 1..Len(Paragraphs) :
                          Chunks[k] = LastChars(Chunks[k - 1], UsedOverlap.n)
                                      \o <<NL>> \o Paragraphs[i]

\* a chunk of exactly chunk_overlap + 1 + longest paragraph characters,
\* longer than chunk_size
C30_Witness ==
    /\ PlainCall
    /\ UsedOverlap.n >= 1
    /\ \E k \in 2..Len(Chunks) :
          /\ Len(Chunks[k]) = UsedOverlap.n + 1 + LongestParagraph
          /\ Len(Chunks[k]) > UsedSize.n

====
